---- MODULE Spec2Model ----
(***************************************************************************)
(* gitstat (src/main.rs): one run of the program.  main calls info, which  *)
(* discovers the repository and classifies it (GitInfo::from_repo); the    *)
(* classification queries the git2 backend step by step, and main prints   *)
(* the prompt line (Prompt::fmt) and exits.  Every backend query is one    *)
(* action; the backend's answer is its input, drawn from a bounded set.    *)
(* Text is a sequence of one-character strings.                            *)
(***************************************************************************)
EXTENDS Integers, Sequences, FiniteSets, TLC

VARIABLES pc, log, commit, name, dist, remote, ret, stdout, stderr, rc

vars == <<pc, log, commit, name, dist, remote, ret, stdout, stderr, rc>>

(***************************************************************************)
(* Bounds of the model.                                                    *)
(***************************************************************************)
\* paths one status scan reports, at most
MaxPaths == 2
\* ahead / behind counts the commit graph reports: 0..MaxDist and one
\* two-digit value
MaxDist == 1
\* bytes of an object id (20 in git2; the hexadecimal text has two
\* characters per byte)
OidRawLen == 4

(***************************************************************************)
(* Program constants.                                                      *)
(***************************************************************************)
\* oid.to_string().chars().take(6)
ShortOidLen == 6
\* exit status of a successful run, of a run that ended in Err, and of a
\* panic (unimplemented!()) under the Rust runtime
RcOk == 0
RcErr == 1
RcPanic == 101

(***************************************************************************)
(* Inputs.                                                                 *)
(***************************************************************************)
\* error codes of git2::Error the program tells apart, and one other
ErrCodes == {"NotFound", "UnbornBranch", "Generic"}

\* object ids: the raw bytes.  The second and the third differ from the
\* first in the first and in the last byte
Oids ==
    { [i \in 1..OidRawLen |-> 0],
      [i \in 1..OidRawLen |-> IF i = 1 THEN 171 ELSE 0],
      [i \in 1..OidRawLen |-> IF i = OidRawLen THEN 30 ELSE 0] }

\* short names of local branches
BranchNames == { <<"m", "a", "i", "n">>, <<"d", "e", "v">> }

\* fully-qualified names of upstream branches
UpstreamNames ==
    { <<"r", "/", "o", "/", "m">>, <<"r", "/", "u", "/", "d">> }

\* counts the commit graph reports
DistValues == (0..MaxDist) \cup {MaxDist + 11}

\* flag sets (git2::Status) of reported paths
StatusFlagSets ==
    { {"INDEX_NEW"},
      {"INDEX_MODIFIED"},
      {"WT_NEW"},
      {"CONFLICTED"},
      {"INDEX_MODIFIED", "WT_MODIFIED"},
      {"INDEX_DELETED", "CONFLICTED"},
      {"INDEX_TYPECHANGE", "WT_TYPECHANGE"},
      {"WT_RENAMED", "IGNORED"},
      {"INDEX_RENAMED", "WT_DELETED", "WT_NEW"} }

\* what one status scan may report: every sequence of at most MaxPaths paths
SeqsUpTo(S, n) == UNION { [1..k -> S] : k \in 0..n }

Reports == SeqsUpTo(StatusFlagSets, MaxPaths)

(***************************************************************************)
(* Text: Display of integers and of object ids.                            *)
(***************************************************************************)
DigitChars == <<"0", "1", "2", "3", "4", "5", "6", "7", "8", "9">>

HexChars ==
    <<"0", "1", "2", "3", "4", "5", "6", "7", "8", "9", "a", "b", "c", "d", "e", "f">>

\* Display of u32 / usize: decimal, no padding
RECURSIVE Decimal(_)
Decimal(n) ==
    IF n < 10 THEN <<DigitChars[n + 1]>>
    ELSE Decimal(n \div 10) \o <<DigitChars[(n % 10) + 1]>>

\* Oid::to_string: two lowercase hexadecimal characters per byte
RECURSIVE OidToString(_)
OidToString(oid) ==
    IF oid = <<>> THEN <<>>
    ELSE <<HexChars[(Head(oid) \div 16) + 1], HexChars[(Head(oid) % 16) + 1]>>
         \o OidToString(Tail(oid))

\* Iterator::take(n) on the characters of s
Take(s, n) == SubSeq(s, 1, IF n < Len(s) THEN n ELSE Len(s))

Sp == <<" ">>

(***************************************************************************)
(* Status::from_repo: the loop over the reported entries.                  *)
(***************************************************************************)
WtChangedStatus == {"WT_MODIFIED", "WT_DELETED", "WT_TYPECHANGE", "WT_RENAMED"}

IndexChangedStatus ==
    {"INDEX_MODIFIED", "INDEX_DELETED", "INDEX_TYPECHANGE", "INDEX_RENAMED"}

IsConflicted(status) == "CONFLICTED" \in status

IsWtNew(status) == "WT_NEW" \in status

Intersects(status, flags) == status \cap flags # {}

ZeroStatus == [staged |-> 0, conflicts |-> 0, changed |-> 0, untracked |-> 0]

\* a bug: the four tests chained with else, so that a path counts once
CountEntryExclusive(acc, status) ==
    IF IsConflicted(status) THEN [acc EXCEPT !.conflicts = @ + 1]
    ELSE IF Intersects(status, WtChangedStatus) THEN [acc EXCEPT !.changed = @ + 1]
    ELSE IF IsWtNew(status) THEN [acc EXCEPT !.untracked = @ + 1]
    ELSE IF Intersects(status, IndexChangedStatus) THEN [acc EXCEPT !.staged = @ + 1]
    ELSE acc

\* one iteration of the loop: four independent tests
CountEntry(acc, status) ==
    [ staged    |-> acc.staged + (IF Intersects(status, IndexChangedStatus) THEN 1 ELSE 0),
      conflicts |-> acc.conflicts + (IF IsConflicted(status) THEN 1 ELSE 0),
      changed   |-> acc.changed + (IF Intersects(status, WtChangedStatus) THEN 1 ELSE 0),
      untracked |-> acc.untracked + (IF IsWtNew(status) THEN 1 ELSE 0) ]

\* the loop, from the first reported entry to the last
RECURSIVE CountEntries(_, _)
CountEntries(acc, es) ==
    IF es = <<>> THEN acc
    ELSE CountEntries(CountEntry(acc, Head(es)), Tail(es))

StatusOf(es) == CountEntries(ZeroStatus, es)

(***************************************************************************)
(* Rendering: DisplayStat::fmt and Prompt::fmt.                            *)
(***************************************************************************)
DisplayStatFmt(status) ==
    Decimal(status.staged) \o Sp \o Decimal(status.conflicts) \o Sp
    \o Decimal(status.changed) \o Sp \o Decimal(status.untracked)

NoRemote == [tag |-> "None"]

SomeRemote(branch, distance) ==
    [tag |-> "Some", branch |-> branch, distance |-> distance]

NoDistance == [tag |-> "None"]

SomeDistance(ahead, behind) == [tag |-> "Some", ahead |-> ahead, behind |-> behind]

\* Distance::as_pair
AsPair(d) == <<d.ahead, d.behind>>

\* a bug: the pair the other way round
AheadBehindSwapped(r) ==
    IF r.tag = "Some" /\ r.distance.tag = "Some"
    THEN <<r.distance.behind, r.distance.ahead>>
    ELSE <<0, 0>>

\* the (ahead, behind) pair Prompt::fmt prints for a branch
AheadBehind(r) ==
    IF r.tag = "Some"
    THEN IF r.distance.tag = "Some" THEN AsPair(r.distance) ELSE <<0, 0>>
    ELSE <<0, 0>>

BranchInfo(n, r, status, oid) ==
    [tag |-> "Branch", branch |-> [name |-> n, remote |-> r], status |-> status, oid |-> oid]

DetachedInfo(oid, status) == [tag |-> "Detached", oid |-> oid, status |-> status]

UnbornInfo(status) == [tag |-> "Unborn", status |-> status]

\* a bug: the status of a detached or unborn head printed as zeros
PromptFmtZeros(info) ==
    CASE info.tag = "Branch" ->
            info.branch.name \o Sp \o Decimal(AheadBehind(info.branch.remote)[1]) \o Sp
            \o Decimal(AheadBehind(info.branch.remote)[2]) \o Sp
            \o DisplayStatFmt(info.status)
      [] info.tag = "Detached" ->
            <<":">> \o Take(OidToString(info.oid), ShortOidLen) \o Sp \o <<"0">> \o Sp
            \o <<"0">> \o Sp \o DisplayStatFmt(ZeroStatus)
      [] info.tag = "Unborn" ->
            <<"?">> \o Sp \o <<"0">> \o Sp \o <<"0">> \o Sp \o DisplayStatFmt(ZeroStatus)

\* a bug: the object id printed whole
PromptFmtFullOid(info) ==
    CASE info.tag = "Branch" ->
            info.branch.name \o Sp \o Decimal(AheadBehind(info.branch.remote)[1]) \o Sp
            \o Decimal(AheadBehind(info.branch.remote)[2]) \o Sp
            \o DisplayStatFmt(info.status)
      [] info.tag = "Detached" ->
            <<":">> \o OidToString(info.oid) \o Sp \o <<"0">> \o Sp
            \o <<"0">> \o Sp \o DisplayStatFmt(info.status)
      [] info.tag = "Unborn" ->
            <<"?">> \o Sp \o <<"0">> \o Sp \o <<"0">> \o Sp \o DisplayStatFmt(info.status)

PromptFmt(info) ==
    CASE info.tag = "Branch" ->
            info.branch.name \o Sp \o Decimal(AheadBehind(info.branch.remote)[1]) \o Sp
            \o Decimal(AheadBehind(info.branch.remote)[2]) \o Sp
            \o DisplayStatFmt(info.status)
      [] info.tag = "Detached" ->
            <<":">> \o Take(OidToString(info.oid), ShortOidLen) \o Sp \o <<"0">> \o Sp
            \o <<"0">> \o Sp \o DisplayStatFmt(info.status)
      [] info.tag = "Unborn" ->
            <<"?">> \o Sp \o <<"0">> \o Sp \o <<"0">> \o Sp \o DisplayStatFmt(info.status)

(***************************************************************************)
(* Values: errors, results, the query log.                                 *)
(***************************************************************************)
\* a git2::Error converted to anyhow::Error by `?` or `e.into()`: the query
\* that failed and its error code
GitError(q, c) == [q |-> q, code |-> c, local |-> <<>>]

\* anyhow!("non-UTF8 upstream branch name for local branch  {}", local_branch)
NonUtf8Error(local) == [q |-> "anyhow", code |-> "NonUtf8Upstream", local |-> local]

Pending == [tag |-> "Pending"]

RetNone == [tag |-> "None"]

RetSome(info) == [tag |-> "Some", info |-> info]

RetErr(e) == [tag |-> "Err", err |-> e]

\* one backend query, how it ended ("Ok", or the error code) and the value
\* the backend answered with (NoAnswer where the program reads none)
Query(q, c, ans) == [q |-> q, code |-> c, ans |-> ans]

NoAnswer == <<>>

\* the answer None of an accessor of a name that is not valid UTF-8
NonText == <<"\\xff">>

NoOid == <<>>

Init ==
    /\ pc = "discover"
    /\ log = <<>>
    /\ commit = NoOid
    /\ name = <<>>
    /\ dist = <<>>
    /\ remote = NoRemote
    /\ ret = Pending
    /\ stdout = <<>>
    /\ stderr = <<>>
    /\ rc = -1

\* a query answered Ok: the pass goes on at `next`
Proceed(q, ans, next) ==
    /\ log' = Append(log, Query(q, "Ok", ans))
    /\ pc' = next

\* `?` / `return Err(e.into())`: info returns the error to main
Fail(q, c) ==
    /\ log' = Append(log, Query(q, c, NoAnswer))
    /\ ret' = RetErr(GitError(q, c))
    /\ pc' = "main"

Locals == <<commit, name, dist, remote>>

Outputs == <<stdout, stderr, rc>>

(***************************************************************************)
(* info: git2::Repository::discover(".")                                   *)
(***************************************************************************)
\* a bug: a missing repository returned as an error
DiscoverNotFoundIsErr ==
    /\ pc = "discover"
    /\ \/ Proceed("discover", NoAnswer, "head") /\ UNCHANGED ret
       \/ \E c \in ErrCodes : Fail("discover", c)
    /\ UNCHANGED <<Locals, Outputs>>

Discover ==
    /\ pc = "discover"
    /\ \/ Proceed("discover", NoAnswer, "head") /\ UNCHANGED ret
       \/ /\ log' = Append(log, Query("discover", "NotFound", NoAnswer))
          /\ ret' = RetNone
          /\ pc' = "main"
       \/ \E c \in ErrCodes \ {"NotFound"} : Fail("discover", c)
    /\ UNCHANGED <<Locals, Outputs>>

(***************************************************************************)
(* GitInfo::from_repo                                                      *)
(***************************************************************************)
\* a bug: every failure of repo.head() taken for an unborn branch
RepoHeadAnyErrIsUnborn ==
    /\ pc = "head"
    /\ \/ Proceed("head", NoAnswer, "peel")
       \/ \E c \in ErrCodes :
            /\ log' = Append(log, Query("head", c, NoAnswer))
            /\ pc' = "status_unborn"
    /\ UNCHANGED <<ret, Locals, Outputs>>

\* repo.head()
RepoHead ==
    /\ pc = "head"
    /\ \/ Proceed("head", NoAnswer, "peel") /\ UNCHANGED ret
       \/ /\ log' = Append(log, Query("head", "UnbornBranch", NoAnswer))
          /\ pc' = "status_unborn"
          /\ UNCHANGED ret
       \/ \E c \in ErrCodes \ {"UnbornBranch"} : Fail("head", c)
    /\ UNCHANGED <<Locals, Outputs>>

\* head.peel_to_commit()?
PeelToCommit ==
    /\ pc = "peel"
    /\ \/ \E oid \in Oids :
            /\ Proceed("peel", oid, "head_detached")
            /\ commit' = oid
            /\ UNCHANGED ret
       \/ \E c \in ErrCodes : Fail("peel", c) /\ UNCHANGED commit
    /\ UNCHANGED <<name, dist, remote, Outputs>>

\* a bug: the test of repo.head_detached() the wrong way round
HeadDetachedInverted ==
    /\ pc = "head_detached"
    /\ \/ \E d \in {"True", "False"} :
            /\ Proceed("head_detached", d, IF d = "True" THEN "shorthand" ELSE "status_detached")
            /\ UNCHANGED ret
       \/ \E c \in ErrCodes : Fail("head_detached", c)
    /\ UNCHANGED <<Locals, Outputs>>

\* if repo.head_detached()? { .. }
HeadDetached ==
    /\ pc = "head_detached"
    /\ \/ \E d \in {"True", "False"} :
            /\ Proceed("head_detached", d, IF d = "True" THEN "status_detached" ELSE "shorthand")
            /\ UNCHANGED ret
       \/ \E c \in ErrCodes : Fail("head_detached", c)
    /\ UNCHANGED <<Locals, Outputs>>

\* head.shorthand(): Some(name), or None and unimplemented!() panics
Shorthand ==
    /\ pc = "shorthand"
    /\ \/ \E n \in BranchNames :
            /\ Proceed("shorthand", n, "find_branch")
            /\ name' = n
            /\ UNCHANGED Outputs
       \/ /\ Proceed("shorthand", NonText, "exit")
          /\ stderr' = Append(stderr, <<"panic: ", "not implemented">>)
          /\ rc' = RcPanic
          /\ UNCHANGED <<name, stdout>>
    /\ UNCHANGED <<ret, commit, dist, remote>>

(***************************************************************************)
(* Remote::from_repo                                                       *)
(***************************************************************************)
\* repo.find_branch(local_branch, git2::BranchType::Local)?
FindBranch ==
    /\ pc = "find_branch"
    /\ \/ Proceed("find_branch", NoAnswer, "upstream") /\ UNCHANGED ret
       \/ \E c \in ErrCodes : Fail("find_branch", c)
    /\ UNCHANGED <<Locals, Outputs>>

\* branch.upstream(): NotFound is Ok(None), and from_repo goes on to the
\* status scan
Upstream ==
    /\ pc = "upstream"
    /\ \/ Proceed("upstream", NoAnswer, "peel_local") /\ UNCHANGED <<ret, remote>>
       \/ /\ log' = Append(log, Query("upstream", "NotFound", NoAnswer))
          /\ remote' = NoRemote
          /\ pc' = "status_branch"
          /\ UNCHANGED ret
       \/ \E c \in ErrCodes \ {"NotFound"} : Fail("upstream", c) /\ UNCHANGED remote
    /\ UNCHANGED <<commit, name, dist, Outputs>>

\* branch.get().peel_to_commit()?
PeelLocal ==
    /\ pc = "peel_local"
    /\ \/ Proceed("peel_local", NoAnswer, "peel_upstream") /\ UNCHANGED ret
       \/ \E c \in ErrCodes : Fail("peel_local", c)
    /\ UNCHANGED <<Locals, Outputs>>

\* upstream.get().peel_to_commit()?
PeelUpstream ==
    /\ pc = "peel_upstream"
    /\ \/ Proceed("peel_upstream", NoAnswer, "graph") /\ UNCHANGED ret
       \/ \E c \in ErrCodes : Fail("peel_upstream", c)
    /\ UNCHANGED <<Locals, Outputs>>

\* a bug: a failure of the graph query dropped, the branch kept without remote
GraphAheadBehindErrDropped ==
    /\ pc = "graph"
    /\ \/ \E a \in DistValues, b \in DistValues :
            /\ Proceed("graph", <<a, b>>, "upstream_name")
            /\ dist' = <<a, b>>
       \/ \E c \in ErrCodes :
            /\ log' = Append(log, Query("graph", c, NoAnswer))
            /\ pc' = "status_branch"
            /\ UNCHANGED dist
    /\ UNCHANGED <<ret, commit, name, remote, Outputs>>

\* let (ahead, behind) = repo.graph_ahead_behind(local, upstream)?
GraphAheadBehind ==
    /\ pc = "graph"
    /\ \/ \E a \in DistValues, b \in DistValues :
            /\ Proceed("graph", <<a, b>>, "upstream_name")
            /\ dist' = <<a, b>>
            /\ UNCHANGED ret
       \/ \E c \in ErrCodes : Fail("graph", c) /\ UNCHANGED dist
    /\ UNCHANGED <<commit, name, remote, Outputs>>

\* a bug: the distance built behind first
UpstreamNameDistSwapped ==
    /\ pc = "upstream_name"
    /\ \/ \E u \in UpstreamNames :
            /\ Proceed("upstream_name", u, "status_branch")
            /\ remote' = SomeRemote(u, SomeDistance(dist[2], dist[1]))
            /\ UNCHANGED ret
       \/ /\ Proceed("upstream_name", NonText, "main")
          /\ ret' = RetErr(NonUtf8Error(name))
          /\ UNCHANGED remote
       \/ \E c \in ErrCodes : Fail("upstream_name", c) /\ UNCHANGED remote
    /\ UNCHANGED <<commit, name, dist, Outputs>>

\* Ok(Some(Remote { branch: upstream.name()?.ok_or_else(..)?.into(),
\*                  distance: Some(Distance { ahead, behind }) }))
UpstreamName ==
    /\ pc = "upstream_name"
    /\ \/ \E u \in UpstreamNames :
            /\ Proceed("upstream_name", u, "status_branch")
            /\ remote' = SomeRemote(u, SomeDistance(dist[1], dist[2]))
            /\ UNCHANGED ret
       \/ /\ Proceed("upstream_name", NonText, "main")
          /\ ret' = RetErr(NonUtf8Error(name))
          /\ UNCHANGED remote
       \/ \E c \in ErrCodes : Fail("upstream_name", c) /\ UNCHANGED remote
    /\ UNCHANGED <<commit, name, dist, Outputs>>

(***************************************************************************)
(* Status::from_repo, called in each arm of GitInfo::from_repo; the arm    *)
(* builds the GitInfo and info returns Ok(Some(it)).                       *)
(***************************************************************************)
\* the GitInfo the arm builds from the counters
MakeInfo(arm, status) ==
    CASE arm = "Unborn" -> UnbornInfo(status)
      [] arm = "Detached" -> DetachedInfo(commit, status)
      [] arm = "Branch" -> BranchInfo(name, remote, status, commit)

\* repo.statuses(Some(&mut options))? and the loop, in the arm `arm`
StatusFromRepo(arm) ==
    /\ \/ \E es \in Reports :
            /\ Proceed("statuses", es, "main")
            /\ ret' = RetSome(MakeInfo(arm, StatusOf(es)))
       \/ \E c \in ErrCodes : Fail("statuses", c)
    /\ UNCHANGED <<commit, name, dist, remote, Outputs>>

\* Ok(GitInfo::Unborn { status: Status::from_repo(repo)? })
StatusUnborn == pc = "status_unborn" /\ StatusFromRepo("Unborn")

\* a bug: no status scan for a detached head, its counters left at 0
StatusDetachedNoScan ==
    /\ pc = "status_detached"
    /\ ret' = RetSome(DetachedInfo(commit, ZeroStatus))
    /\ pc' = "main"
    /\ UNCHANGED <<log, Locals, Outputs>>

\* Ok(GitInfo::Detached { oid: commit.id(), status: Status::from_repo(repo)? })
StatusDetached == pc = "status_detached" /\ StatusFromRepo("Detached")

\* GitInfo::Branch { branch: .., status: Status::from_repo(repo)?, oid: commit.id() }
StatusBranch == pc = "status_branch" /\ StatusFromRepo("Branch")

(***************************************************************************)
(* main                                                                    *)
(***************************************************************************)
\* const DEBUG: bool = true
DEBUG == TRUE

\* match info() { .. }; std::process::exit(rc)
Main ==
    /\ pc = "main"
    /\ pc' = "exit"
    /\ CASE ret.tag = "Some" ->
               /\ stdout' = stdout \o PromptFmt(ret.info)
               /\ rc' = RcOk
               /\ UNCHANGED stderr
         [] ret.tag = "None" ->
               /\ rc' = RcOk
               /\ UNCHANGED <<stdout, stderr>>
         [] ret.tag = "Err" ->
               /\ stderr' = IF DEBUG THEN Append(stderr, <<"error: ", ret.err>>) ELSE stderr
               /\ rc' = RcErr
               /\ UNCHANGED stdout
    /\ UNCHANGED <<log, ret, Locals>>

Next ==
    \/ Discover
    \/ RepoHead
    \/ PeelToCommit
    \/ HeadDetached
    \/ Shorthand
    \/ FindBranch
    \/ Upstream
    \/ PeelLocal
    \/ PeelUpstream
    \/ GraphAheadBehind
    \/ UpstreamName
    \/ StatusUnborn
    \/ StatusDetached
    \/ StatusBranch
    \/ Main

Spec == Init /\ [][Next]_vars

\* the run is one thread that is never suspended: a step that can be taken
\* is taken
FairSpec == Spec /\ WF_vars(Next)

(***************************************************************************)
(* The renderer on every GitInfo value, those no classification builds     *)
(* included (a remote without distance): main entered with any result of   *)
(* info.                                                                   *)
(***************************************************************************)
Counters == 0..MaxPaths

Statuses == [staged : Counters, conflicts : Counters, changed : Counters, untracked : Counters]

Remotes ==
    {NoRemote}
    \cup { SomeRemote(u, NoDistance) : u \in UpstreamNames }
    \cup { SomeRemote(u, SomeDistance(a, b)) : u \in UpstreamNames, a \in DistValues, b \in DistValues }

GitInfos ==
    { UnbornInfo(st) : st \in Statuses }
    \cup { DetachedInfo(oid, st) : oid \in Oids, st \in Statuses }
    \cup { BranchInfo(n, r, st, oid) : n \in BranchNames, r \in Remotes, st \in Statuses, oid \in Oids }

InfoResults ==
    {RetNone}
    \cup { RetErr(GitError("head", c)) : c \in ErrCodes \ {"UnbornBranch"} }
    \cup { RetSome(i) : i \in GitInfos }

RenderInit ==
    /\ pc = "main"
    /\ log = <<>>
    /\ commit = NoOid
    /\ name = <<>>
    /\ dist = <<>>
    /\ remote = NoRemote
    /\ ret \in InfoResults
    /\ stdout = <<>>
    /\ stderr = <<>>
    /\ rc = -1

RenderSpec == RenderInit /\ [][Main]_vars

(***************************************************************************)
(* Reading the log and the printed line.                                   *)
(***************************************************************************)
Indices(q) == { i \in DOMAIN log : log[i].q = q }

Queried(q) == Indices(q) # {}

IndexOf(q) == CHOOSE i \in Indices(q) : TRUE

CodeOf(q) == IF Queried(q) THEN log[IndexOf(q)].code ELSE "NotQueried"

AnswerOf(q) == log[IndexOf(q)].ans

\* the classification pass is over: info has returned or the program panicked
PassOver == pc \in {"main", "exit"}

Classified == ret.tag = "Some"

Panicked == pc = "exit" /\ rc = RcPanic

\* the fields of a line, cut at every space
RECURSIVE Split(_, _, _)
Split(s, cur, acc) ==
    IF s = <<>> THEN Append(acc, cur)
    ELSE IF Head(s) = " " THEN Split(Tail(s), <<>>, Append(acc, cur))
    ELSE Split(Tail(s), Append(cur, Head(s)), acc)

Fields(s) == Split(s, <<>>, <<>>)

IsDigit(c) == \E d \in 1..10 : DigitChars[d] = c

DigitValue(c) == (CHOOSE d \in 1..10 : DigitChars[d] = c) - 1

\* a decimal numeral: digits only, no leading zero
IsNumeral(f) ==
    /\ f # <<>>
    /\ \A i \in DOMAIN f : IsDigit(f[i])
    /\ Len(f) > 1 => f[1] # "0"

RECURSIVE NumeralValue(_)
NumeralValue(f) ==
    IF f = <<>> THEN 0
    ELSE 10 * NumeralValue(SubSeq(f, 1, Len(f) - 1)) + DigitValue(f[Len(f)])

\* field k of the fields fs is the numeral of n
ShowsNumber(fs, k, n) == IsNumeral(fs[k]) /\ NumeralValue(fs[k]) = n

IsStaged(status) == Intersects(status, IndexChangedStatus)

IsChanged(status) == Intersects(status, WtChangedStatus)

\* the counters of a report, each counted on its own
CountsOf(es) ==
    [ staged    |-> Cardinality({ i \in DOMAIN es : IsStaged(es[i]) }),
      conflicts |-> Cardinality({ i \in DOMAIN es : IsConflicted(es[i]) }),
      changed   |-> Cardinality({ i \in DOMAIN es : IsChanged(es[i]) }),
      untracked |-> Cardinality({ i \in DOMAIN es : IsWtNew(es[i]) }) ]

\* fields 4 to 7 of the fields fs are the four counters of st, in the order
\* staged, conflicts, changed, untracked
ShowsStatus(fs, st) ==
    /\ ShowsNumber(fs, 4, st.staged)
    /\ ShowsNumber(fs, 5, st.conflicts)
    /\ ShowsNumber(fs, 6, st.changed)
    /\ ShowsNumber(fs, 7, st.untracked)

ZeroLine == <<"?", " ", "0", " ", "0", " ", "0", " ", "0", " ", "0", " ", "0">>

Orders(n) == { p \in [1..n -> 1..n] : \A i, j \in 1..n : p[i] = p[j] => i = j }

Permuted(es, p) == [i \in DOMAIN es |-> es[p[i]]]

(***************************************************************************)
(* C1                                                                      *)
(***************************************************************************)
HeadUnborn == CodeOf("head") = "UnbornBranch"

HeadIsDetached == CodeOf("head_detached") = "Ok" /\ AnswerOf("head_detached") = "True"

HeadOnBranch == CodeOf("head_detached") = "Ok" /\ AnswerOf("head_detached") = "False"

C2_UnbornNoScanZeros ==
    HeadUnborn =>
        /\ ~Queried("statuses")
        /\ pc = "exit" => stdout = ZeroLine

\* C2 amended: after the unborn-branch failure of head resolution the pass
\* makes one status scan; when the scan succeeds it returns Unborn with the
\* scan's counters and the printed line is "? 0 0" followed by the four
\* counters (staged, conflicts, changed, untracked) of the working copy, so it
\* is "? 0 0 0 0 0 0" only when every counter is 0; when the scan fails the
\* pass fails and nothing is printed.
C2_UnbornScansAndPrintsStatus ==
    (HeadUnborn /\ PassOver) =>
        /\ Cardinality(Indices("statuses")) = 1
        /\ CodeOf("statuses") = "Ok" =>
              /\ ret = RetSome(UnbornInfo(CountsOf(AnswerOf("statuses"))))
              /\ pc = "exit" =>
                    /\ Len(Fields(stdout)) = 7
                    /\ Fields(stdout)[1] = <<"?">>
                    /\ ShowsNumber(Fields(stdout), 2, 0)
                    /\ ShowsNumber(Fields(stdout), 3, 0)
                    /\ ShowsStatus(Fields(stdout), CountsOf(AnswerOf("statuses")))
                    /\ stdout = ZeroLine <=> CountsOf(AnswerOf("statuses")) = ZeroStatus
        /\ CodeOf("statuses") # "Ok" => ret.tag = "Err" /\ stdout = <<>>

\* C2 witness: an unborn head was printed with staged and untracked paths in the working copy
C2_Witness ==
    /\ pc = "exit"
    /\ HeadUnborn
    /\ Classified
    /\ ret.info.status.staged > 0
    /\ ret.info.status.untracked > 0
    /\ stdout # ZeroLine

(***************************************************************************)
(* C3                                                                      *)
(***************************************************************************)
\* C3 as stated: for a detached head no status scan is made and the six
\* numeric fields of the printed line are all 0.
C3_DetachedAllZero ==
    HeadIsDetached =>
        /\ ~Queried("statuses")
        /\ (pc = "exit" /\ Classified) =>
              \A k \in 2..7 : Fields(stdout)[k] = <<"0">>

\* C3 amended: for a detached head the pass makes one status scan, and the
\* printed line has ahead and behind 0 and, after them, the four counters
\* (staged, conflicts, changed, untracked) of the working copy; the six
\* fields are all 0 only when every counter is 0.
C3_DetachedScansAndPrintsStatus ==
    (HeadIsDetached /\ PassOver) =>
        /\ Cardinality(Indices("statuses")) = 1
        /\ CodeOf("statuses") = "Ok" =>
              /\ Classified
              /\ ret.info.status = CountsOf(AnswerOf("statuses"))
              /\ pc = "exit" =>
                    /\ Len(Fields(stdout)) = 7
                    /\ ShowsNumber(Fields(stdout), 2, 0)
                    /\ ShowsNumber(Fields(stdout), 3, 0)
                    /\ ShowsStatus(Fields(stdout), CountsOf(AnswerOf("statuses")))
                    /\ (\A k \in 2..7 : Fields(stdout)[k] = <<"0">>)
                          <=> CountsOf(AnswerOf("statuses")) = ZeroStatus

\* C3 witness: a detached head was printed with conflicted and untracked paths in the working copy
C3_Witness ==
    /\ pc = "exit"
    /\ HeadIsDetached
    /\ Classified
    /\ Fields(stdout)[5] # <<"0">>
    /\ Fields(stdout)[7] # <<"0">>

(***************************************************************************)
(* C4                                                                      *)
(***************************************************************************)
PrintedDetached == pc = "exit" /\ Classified /\ ret.info.tag = "Detached"

\* the first field of the line printed for a detached head at oid
DetachedField(oid) == Fields(PromptFmt(DetachedInfo(oid, ZeroStatus)))[1]

\* C4 as stated: the first field for a detached head is ":" and the complete
\* hexadecimal text of the id, two characters a byte, so that different ids
\* give different first fields.
C4_DetachedFullOid ==
    PrintedDetached =>
        /\ Len(Fields(stdout)[1]) = 1 + 2 * OidRawLen
        /\ Fields(stdout)[1] = <<":">> \o OidToString(AnswerOf("peel"))
        /\ \A other \in Oids \ {AnswerOf("peel")} : DetachedField(other) # Fields(stdout)[1]

\* C4 amended: the first field for a detached head is ":" and the first 6
\* characters of the hexadecimal text of the id (its first 3 bytes), so that
\* two ids render the same first field exactly when they agree in their first
\* 6 hexadecimal characters.
C4_DetachedShortOid ==
    PrintedDetached =>
        /\ Len(Fields(stdout)[1]) = 1 + ShortOidLen
        /\ Fields(stdout)[1][1] = ":"
        /\ \A k \in 1..ShortOidLen :
              Fields(stdout)[1][1 + k] = OidToString(AnswerOf("peel"))[k]
        /\ \A other \in Oids :
              (DetachedField(other) = Fields(stdout)[1])
                 <=> (\A b \in 1..(ShortOidLen \div 2) : other[b] = AnswerOf("peel")[b])

\* C4 witness: a detached head was printed, and another id renders the same first field
C4_Witness ==
    /\ PrintedDetached
    /\ \E other \in Oids \ {ret.info.oid} : DetachedField(other) = Fields(stdout)[1]

(***************************************************************************)
(* C5                                                                      *)
(***************************************************************************)
PrintedBranch == pc = "exit" /\ Classified /\ ret.info.tag = "Branch"

HasDistance(r) == r.tag = "Some" /\ r.distance.tag = "Some"

\* C5: the line printed for a branch is seven fields, one space between two
\* of them: the branch name, then ahead and behind (the remote's distance, or
\* 0 and 0 without remote or without distance), then the state's staged,
\* conflicts, changed and untracked counters as they are.
C5_BranchLine ==
    PrintedBranch =>
        LET fs == Fields(stdout)
            r  == ret.info.branch.remote
        IN  /\ Len(fs) = 7
            /\ fs[1] = ret.info.branch.name
            /\ HasDistance(r) =>
                  /\ ShowsNumber(fs, 2, r.distance.ahead)
                  /\ ShowsNumber(fs, 3, r.distance.behind)
            /\ ~HasDistance(r) => fs[2] = <<"0">> /\ fs[3] = <<"0">>
            /\ ShowsStatus(fs, ret.info.status)

\* C5 witness: a branch was printed with a two-digit ahead, behind 1 and non-zero counters
C5_Witness ==
    /\ PrintedBranch
    /\ HasDistance(ret.info.branch.remote)
    /\ ret.info.branch.remote.distance.ahead > 9
    /\ ret.info.branch.remote.distance.behind = 1
    /\ ret.info.status.staged = 1
    /\ ret.info.status.untracked = 2

(***************************************************************************)
(* C6                                                                      *)
(***************************************************************************)
NotARepository == CodeOf("discover") = "NotFound"

\* C6 as stated: when discovery fails with not-found the run is a reported
\* failure, the exit status is not 0.
C6_NotFoundIsFailure == (pc = "exit" /\ NotARepository) => rc # RcOk

\* C6 amended: when discovery fails with not-found the run ends as a success
\* with empty output: info returns Ok(None), no further backend query is
\* made, nothing is printed to standard output or to standard error, and the
\* exit status is 0; every other failure of discovery ends with exit status 1.
C6_NotFoundIsSilentSuccess ==
    /\ NotARepository =>
          /\ Len(log) = 1
          /\ ret = RetNone
          /\ stdout = <<>>
          /\ stderr = <<>>
          /\ pc = "exit" => rc = RcOk
    /\ (pc = "exit" /\ CodeOf("discover") \in ErrCodes \ {"NotFound"}) =>
          rc = RcErr /\ stdout = <<>>

\* C6 witness: a run outside any repository has exited
C6_Witness == pc = "exit" /\ NotARepository /\ rc = RcOk /\ stdout = <<>>

(***************************************************************************)
(* C7                                                                      *)
(***************************************************************************)
Scanned == CodeOf("statuses") = "Ok"

\* C7: the counters a scan returns are, each on its own, the number of
\* reported paths that satisfy the counter's predicate; a path both staged
\* and conflicted counts in both; and the report in any other order gives the
\* same counters.
C7_CountersIndependent ==
    Scanned =>
        LET es == AnswerOf("statuses")
            st == ret.info.status
        IN  /\ st.staged = CountsOf(es).staged
            /\ st.conflicts = CountsOf(es).conflicts
            /\ st.changed = CountsOf(es).changed
            /\ st.untracked = CountsOf(es).untracked
            /\ \A i \in DOMAIN es :
                  (IsStaged(es[i]) /\ IsConflicted(es[i])) =>
                      st.staged >= 1 /\ st.conflicts >= 1
            /\ \A p \in Orders(Len(es)) : StatusOf(Permuted(es, p)) = st

\* C7 witness: a scan reported a path both staged and conflicted, then a path no counter counts
C7_Witness ==
    /\ Scanned
    /\ Len(AnswerOf("statuses")) >= 2
    /\ AnswerOf("statuses")[1] = {"INDEX_DELETED", "CONFLICTED"}
    /\ AnswerOf("statuses")[2] = {"INDEX_NEW"}
    /\ ret.info.status.staged = 1
    /\ ret.info.status.conflicts = 1

(***************************************************************************)
(* C8                                                                      *)
(***************************************************************************)
ResolverQueries ==
    {"find_branch", "upstream", "peel_local", "peel_upstream", "graph", "upstream_name"}

\* Remote::from_repo has returned
ResolverOver == Queried("find_branch") /\ pc \in {"status_branch", "main", "exit"}

\* Remote::from_repo has returned Ok: from_repo went on to the status scan
ResolverOk == ResolverOver /\ (pc = "status_branch" \/ Queried("statuses"))

\* query i of the log ended in an error
Failed(i) == log[i].code # "Ok"

\* C8: the resolver returns None, a success, exactly when the upstream lookup
\* fails with not-found, and then no commit or graph query was made; with an
\* upstream and every later query answered it returns Some with the
\* upstream's name and the distance (ahead, behind) as the graph reports it;
\* it fails only for an error of one of its queries other than not-found of
\* the upstream lookup, or for an upstream name that is no text.
C8_RemoteResolver ==
    /\ CodeOf("upstream") = "NotFound" =>
          /\ ResolverOk
          /\ remote = NoRemote
          /\ \A q \in {"peel_local", "peel_upstream", "graph", "upstream_name"} : ~Queried(q)
    /\ (ResolverOk /\ remote = NoRemote) => CodeOf("upstream") = "NotFound"
    /\ (ResolverOk /\ CodeOf("upstream") = "Ok") =>
          /\ \A q \in ResolverQueries : CodeOf(q) = "Ok"
          /\ remote.tag = "Some"
          /\ remote.branch = AnswerOf("upstream_name")
          /\ remote.distance.tag = "Some"
          /\ remote.distance.ahead = AnswerOf("graph")[1]
          /\ remote.distance.behind = AnswerOf("graph")[2]
    /\ (ResolverOver /\ ~ResolverOk) =>
          /\ log[Len(log)].q \in ResolverQueries
          /\ \/ /\ Failed(Len(log))
                /\ ~(log[Len(log)].q = "upstream" /\ log[Len(log)].code = "NotFound")
                /\ ret = RetErr(GitError(log[Len(log)].q, log[Len(log)].code))
             \/ /\ log[Len(log)] = Query("upstream_name", "Ok", NonText)
                /\ ret = RetErr(NonUtf8Error(AnswerOf("shorthand")))
    /\ \A i \in DOMAIN log :
          (log[i].q \in ResolverQueries /\ Failed(i)
             /\ ~(log[i].q = "upstream" /\ log[i].code = "NotFound")) => ~ResolverOk

\* C8 witness: the resolver returned a remote whose ahead and behind differ and are not 0
C8_Witness ==
    /\ ResolverOk
    /\ remote.tag = "Some"
    /\ remote.distance.ahead > remote.distance.behind
    /\ remote.distance.behind > 0

(***************************************************************************)
(* C9                                                                      *)
(***************************************************************************)
\* query i of the log is a query of the classification that failed, the
\* unborn-branch failure of head resolution and the not-found failure of the
\* upstream lookup apart
Fatal(i) ==
    /\ log[i].q # "discover"
    /\ Failed(i)
    /\ ~(log[i].q = "head" /\ log[i].code = "UnbornBranch")
    /\ ~(log[i].q = "upstream" /\ log[i].code = "NotFound")

\* C9: a failed query of the classification is the pass's last query and was
\* made once; the pass returns that failure and no state, and nothing is
\* printed to standard output.
C9_FailureReturnedAtOnce ==
    \A i \in DOMAIN log :
        Fatal(i) =>
            /\ i = Len(log)
            /\ Cardinality(Indices(log[i].q)) = 1
            /\ PassOver
            /\ ret = RetErr(GitError(log[i].q, log[i].code))
            /\ stdout = <<>>
            /\ pc = "exit" => rc = RcErr

\* C9 witness: the status scan of a branch, the last of twelve queries, failed and the run exited
C9_Witness ==
    /\ pc = "exit"
    /\ Len(log) = 12
    /\ Fatal(Len(log))
    /\ log[Len(log)].q = "statuses"
    /\ rc = RcErr

(***************************************************************************)
(* C10                                                                     *)
(***************************************************************************)
Before(q1, q2) == IndexOf(q1) < IndexOf(q2)

QueryNames == { log[i].q : i \in DOMAIN log }

\* the order of the queries made so far
QueryOrder ==
    /\ \A q \in QueryNames : Cardinality(Indices(q)) = 1
    /\ \A q \in QueryNames \ {"discover", "head"} : Before("head", q)
    /\ \A q \in ResolverQueries \cap QueryNames :
          /\ CodeOf("head") = "Ok"
          /\ HeadOnBranch
          /\ Before("head_detached", q)
          /\ Queried("statuses") => Before(q, "statuses")
    /\ (Queried("statuses") /\ HeadOnBranch) =>
          /\ Queried("upstream")
          /\ \/ CodeOf("upstream") = "NotFound"
             \/ /\ CodeOf("graph") = "Ok"
                /\ CodeOf("upstream_name") = "Ok"
                /\ AnswerOf("upstream_name") # NonText

\* how a pass that is over has ended: a state, a failure, or the panic for a
\* head without short name
EndedInStateOrFailure ==
    PassOver =>
        \/ ret.tag \in {"Some", "Err"}
        \/ ret = RetNone /\ NotARepository
        \/ Panicked /\ AnswerOf("shorthand") = NonText

\* C10: the queries of a pass are made one after another, head resolution
\* first, the upstream and distance queries only after the head resolved on a
\* branch, the status scan of a branch only after the resolver returned Ok,
\* each query at most once; and every pass ends, in a state or in a failure.
C10_SequentialPass == [](QueryOrder /\ EndedInStateOrFailure) /\ <>(pc = "exit")

\* C10 witness: a branch with an upstream was classified and printed after all twelve queries
C10_Witness ==
    /\ PrintedBranch
    /\ Len(log) = 12
    /\ CodeOf("upstream_name") = "Ok"
    /\ Scanned

====
